---- MODULE Spec2Model ----
(***************************************************************************)
(* Canteen management backend: menu catalog, order creation and pricing,   *)
(* order status lifecycle and metrics (src/main.py, src/schemas.py).       *)
(*                                                                         *)
(* Python floats are IEEE-754 binary64 values.  They are modelled exactly: *)
(* a double denotes m * 2^e with 2^52 <= m < 2^53 (or m = 0), the mantissa *)
(* m held as a little-endian sequence of base-2^15 limbs so that no        *)
(* intermediate value leaves the 32-bit integer range of TLC.              *)
(*                                                                         *)
(* The handlers run with a connected database (db is not None).            *)
(***************************************************************************)
EXTENDS Integers, Sequences, FiniteSets, TLC

----------------------------------------------------------------------------
(* Bounds of the model *)

MaxItems  == 2   \* menu items ever inserted
MaxOrders == 1   \* orders ever inserted (Spec, SpecOrders)
MaxLines  == 2   \* requested lines in one create_order payload
MaxLifecycleOrders == 2   \* orders ever inserted (SpecLifecycle)
MaxRequests == 2   \* create_order requests handled at the same time (SpecRace)

----------------------------------------------------------------------------
(* Natural numbers of arbitrary size: little-endian limb sequences,        *)
(* no most-significant zero limb, zero is << >>.                           *)

LimbBits == 15
BASE == 32768

RECURSIVE Pow2(_)
Pow2(n) == IF n = 0 THEN 1 ELSE 2 * Pow2(n - 1)

RECURSIVE BNorm(_)
BNorm(a) ==
    IF a = << >> THEN << >>
    ELSE IF a[Len(a)] = 0 THEN BNorm(SubSeq(a, 1, Len(a) - 1)) ELSE a

RECURSIVE BFromInt(_)
BFromInt(n) == IF n = 0 THEN << >> ELSE <<n % BASE>> \o BFromInt(n \div BASE)

RECURSIVE BToInt(_)
BToInt(a) == IF a = << >> THEN 0 ELSE Head(a) + BASE * BToInt(Tail(a))

RECURSIVE BAddC(_, _, _)
BAddC(a, b, c) ==
    IF a = << >> /\ b = << >>
    THEN IF c = 0 THEN << >> ELSE <<c>>
    ELSE LET x == IF a = << >> THEN 0 ELSE Head(a)
             y == IF b = << >> THEN 0 ELSE Head(b)
             s == x + y + c
         IN  <<s % BASE>> \o BAddC(IF a = << >> THEN << >> ELSE Tail(a),
                                   IF b = << >> THEN << >> ELSE Tail(b),
                                   s \div BASE)

BAdd(a, b) == BAddC(a, b, 0)

RECURSIVE BMulSmallC(_, _, _)
BMulSmallC(a, k, c) ==
    IF a = << >>
    THEN IF c = 0 THEN << >> ELSE <<c>>
    ELSE LET s == Head(a) * k + c
         IN  <<s % BASE>> \o BMulSmallC(Tail(a), k, s \div BASE)

\* a * k for 0 <= k < BASE
BMulSmall(a, k) == BNorm(BMulSmallC(a, k, 0))

RECURSIVE BMul(_, _)
BMul(a, b) ==
    IF a = << >> \/ b = << >> THEN << >>
    ELSE BNorm(BAdd(BMulSmall(a, Head(b)), <<0>> \o BMul(a, Tail(b))))

RECURSIVE BitLenInt(_)
BitLenInt(n) == IF n = 0 THEN 0 ELSE 1 + BitLenInt(n \div 2)

BitLen(a) == IF a = << >> THEN 0
             ELSE (Len(a) - 1) * LimbBits + BitLenInt(a[Len(a)])

BBit(a, i) ==
    IF i \div LimbBits + 1 > Len(a) THEN 0
    ELSE (a[i \div LimbBits + 1] \div Pow2(i % LimbBits)) % 2

\* a * 2^n
BShl(a, n) ==
    IF a = << >> THEN << >>
    ELSE [i \in 1..(n \div LimbBits) |-> 0] \o BMulSmall(a, Pow2(n % LimbBits))

RECURSIVE BDivSmallR(_, _, _)
\* quotient limbs (little-endian) of (r * BASE^Len(a) + a) divided by d
BDivSmallR(a, d, r) ==
    IF a = << >> THEN << >>
    ELSE LET cur == r * BASE + a[Len(a)]
         IN  BDivSmallR(SubSeq(a, 1, Len(a) - 1), d, cur % d) \o <<cur \div d>>

RECURSIVE BModSmallR(_, _, _)
BModSmallR(a, d, r) ==
    IF a = << >> THEN r
    ELSE BModSmallR(SubSeq(a, 1, Len(a) - 1), d, (r * BASE + a[Len(a)]) % d)

\* floor(a / d) and a mod d for 1 <= d <= BASE
BDivSmall(a, d) == BNorm(BDivSmallR(a, d, 0))
BModSmall(a, d) == BModSmallR(a, d, 0)

\* floor(a / 2^n)
BShr(a, n) ==
    IF n \div LimbBits >= Len(a) THEN << >>
    ELSE BDivSmall(SubSeq(a, n \div LimbBits + 1, Len(a)), Pow2(n % LimbBits))

\* a / 2^n rounded to the nearest integer, ties to even
BShrHalfEven(a, n) ==
    IF n <= 0 THEN BShl(a, 0 - n)
    ELSE LET q      == BShr(a, n)
             half   == BBit(a, n - 1) = 1
             sticky == \E i \in 0..(n - 2) : BBit(a, i) = 1
         IN  IF half /\ (sticky \/ BBit(a, n) = 1) THEN BAdd(q, <<1>>) ELSE q

----------------------------------------------------------------------------
(* IEEE-754 binary64 arithmetic, round-to-nearest-even.  A double is       *)
(* [neg, m, e]: sign, mantissa and exponent.  The magnitudes met here stay *)
(* far from the subnormal and overflow ranges.                             *)

MantBits == 53

FZero == [neg |-> FALSE, m |-> << >>, e |-> 0]

\* the double nearest to the exact value (-1)^neg * N * 2^e
FRound(neg, N, e) ==
    IF N = << >> THEN FZero
    ELSE LET n == BitLen(N) - MantBits
             m == BShrHalfEven(N, n)
         IN  IF BitLen(m) > MantBits
             THEN [neg |-> neg, m |-> BShr(m, 1), e |-> e + n + 1]
             ELSE [neg |-> neg, m |-> m, e |-> e + n]

FMul(x, y) == FRound(x.neg # y.neg, BMul(x.m, y.m), x.e + y.e)

\* x + y for operands of the same sign (the only sums the handlers keep)
FAdd(x, y) ==
    IF x.m = << >> THEN y
    ELSE IF y.m = << >> THEN x
    ELSE LET lo == IF x.e < y.e THEN x.e ELSE y.e
         IN  FRound(x.neg, BAdd(BShl(x.m, x.e - lo), BShl(y.m, y.e - lo)), lo)

Abs(n) == IF n < 0 THEN 0 - n ELSE n

\* float(n) for an int n
FromInt(n) == FRound(n < 0, BFromInt(Abs(n)), 0)

\* the double a decimal literal c/100 denotes (correctly rounded): the
\* quotient |c| * 2^64 / 100 is cut to an integer with a sticky low bit
FromCents(c) ==
    LET num == BShl(BFromInt(Abs(c)), 64)
        q   == BDivSmall(num, 100)
        r   == BModSmall(num, 100)
    IN  FRound(c < 0, BAdd(BShl(q, 1), IF r = 0 THEN << >> ELSE <<1>>), 0 - 65)

\* round(x, 2) of Python for x >= 0: x is rounded correctly (ties of the
\* exact binary value to even) to two decimals, here counted in hundredths,
\* and that decimal is read back as a double
Round2Cents(x) ==
    LET h == BMulSmall(x.m, 100)
    IN  BToInt(IF x.e >= 0 THEN BShl(h, x.e) ELSE BShrHalfEven(h, 0 - x.e))

Round2(x) == FromCents(Round2Cents(x))

FNonNeg(x) == x.m = << >> \/ ~x.neg

----------------------------------------------------------------------------
(* Identifiers.  An id is the string form of an ObjectId; the store hands  *)
(* out 1, 2, ... to menu items and OrderIdBase + 1, ... to orders.         *)

MalformedId == 0 - 1   \* a string ObjectId() rejects
NoneId      == 0 - 2   \* Python None where an id is expected
GhostId     == 0       \* a well-formed id the store never handed out
OrderIdBase == 100

NONE == "<None>"       \* Python None in an Optional[str] field

\* object_id: ObjectId(None) makes a fresh id, a malformed string raises
ObjectIdOk(id_str) == id_str # MalformedId
object_id(id_str) == IF id_str = NoneId THEN GhostId ELSE id_str

STATUSES == <<"pending", "preparing", "ready", "completed", "cancelled">>

----------------------------------------------------------------------------
(* State *)

VARIABLES
    menuitem,   \* collection "menuitem": _id -> document
    order,      \* collection "order": _id -> document
    nextId,     \* next _id the store hands out to a menu item
    last,       \* the last response: [op, code, body]
    inflight    \* create_order requests being handled: worker -> its frame

vars == <<menuitem, order, nextId, last, inflight>>

Response(op, code, body) == [op |-> op, code |-> code, body |-> body]
\* an HTTPException: the detail string is kept as the tuple of its parts
Error(op, code, detail) == Response(op, code, [detail |-> detail])

OrderId(k) == OrderIdBase + k

\* Menuitem (schemas.py): a document that passed the model's validation
Menuitem(name, category, price, is_available, description) ==
    [name |-> name, category |-> category, price |-> price,
     is_available |-> is_available, description |-> description]

MenuitemValid(item) == FNonNeg(item.price)

\* Orderitem (schemas.py)
Orderitem(menu_item_id, name, price, quantity, line_total) ==
    [menu_item_id |-> menu_item_id, name |-> name, price |-> price,
     quantity |-> quantity, line_total |-> line_total]

\* (mutant) no lower bound on quantity
OrderitemValid_AnyQuantity(it) == FNonNeg(it.price) /\ FNonNeg(it.line_total)

OrderitemValid(it) ==
    FNonNeg(it.price) /\ it.quantity >= 1 /\ FNonNeg(it.line_total)

\* (mutant) another default status
Order_OtherDefault(customer_name, table_number, items, subtotal, tax, total) ==
    [customer_name |-> customer_name, table_number |-> table_number,
     items |-> items, subtotal |-> subtotal, tax |-> tax, total |-> total,
     status |-> "new"]

\* (mutant) an order that starts in the kitchen
Order_Preparing(customer_name, table_number, items, subtotal, tax, total) ==
    [customer_name |-> customer_name, table_number |-> table_number,
     items |-> items, subtotal |-> subtotal, tax |-> tax, total |-> total,
     status |-> "preparing"]

\* Order (schemas.py); status is not passed by create_order and defaults
Order(customer_name, table_number, items, subtotal, tax, total) ==
    [customer_name |-> customer_name, table_number |-> table_number,
     items |-> items, subtotal |-> subtotal, tax |-> tax, total |-> total,
     status |-> "pending"]

OrderValid(o) == FNonNeg(o.subtotal) /\ FNonNeg(o.tax) /\ FNonNeg(o.total)

\* insert(collection, document) -> id of the persistence collaborator;
\* new_id is the fresh id the store assigns
create_document(coll, new_id, doc) ==
    [k \in DOMAIN coll \cup {new_id} |-> IF k = new_id THEN doc ELSE coll[k]]

----------------------------------------------------------------------------
(* Inputs *)

ItemA == Menuitem("tea", "Drinks", FromCents(330), TRUE, NONE)
ItemB == Menuitem("rice", "Main Course", FromCents(500), FALSE, NONE)

MenuInputs == {ItemA, [ItemA EXCEPT !.price = FromCents(0 - 330)]}

PatchInputs ==
    {[name |-> "chai", price |-> FromCents(350)], [price |-> FromCents(0 - 330)]}
        \cup {[is_available |-> a] : a \in BOOLEAN}

MenuIdInputs == (1..MaxItems) \cup {GhostId, MalformedId}

Customers  == {"", "amy"}

\* a quantity is a JSON number, written here in tenths: 0, 1.5 and 2
Quantities == {0, 15, 20}

\* a requested line is a dict: either key may be missing
LineInputs ==
    {[menu_item_id |-> 1, quantity |-> q] : q \in Quantities}
        \cup {[menu_item_id |-> i] : i \in MenuIdInputs}
        \cup {[quantity |-> 20]}

RECURSIVE SeqsUpTo(_, _)
SeqsUpTo(S, n) ==
    IF n = 0 THEN {<< >>}
    ELSE LET shorter == SeqsUpTo(S, n - 1)
         IN  shorter \cup {Append(s, x) : s \in {t \in shorter : Len(t) = n - 1}, x \in S}

CreateOrderInputs ==
    [customer_name : Customers, table_number : {NONE},
     items : SeqsUpTo(LineInputs, MaxLines)]

\* the few payloads used where the catalog or the statuses vary instead
BasicOrderInputs ==
    [customer_name : {"amy"}, table_number : {"T1"},
     items : {<<[menu_item_id |-> 1]>>, <<[menu_item_id |-> 2, quantity |-> 20]>>,
              <<[menu_item_id |-> 1], [menu_item_id |-> GhostId]>>}]

\* request bodies as the client sends them: a body may carry keys that the
\* CreateOrder model does not declare
BasicOrderBodies ==
    BasicOrderInputs
        \cup {[customer_name |-> "amy", table_number |-> "T1",
                items |-> <<[menu_item_id |-> 1]>>, status |-> "completed"]}

StatusValues == {STATUSES[k] : k \in 1..Len(STATUSES)}

StatusInputs ==
    {[status |-> s] : s \in StatusValues \cup {"served"}} \cup {[note |-> "x"]}

BasicStatusInputs == {[status |-> "completed"], [status |-> "served"]}

OrderIdInputs == {OrderId(k) : k \in 1..MaxLifecycleOrders} \cup {GhostId, MalformedId}

----------------------------------------------------------------------------
(* Menu endpoints *)

Init ==
    /\ menuitem = << >>
    /\ order = << >>
    /\ nextId = 1
    /\ last = Response("start", 200, [message |-> "running"])
    /\ inflight = << >>

\* POST /api/menu; a body that fails the Menuitem model is answered 422
add_menu_item(item) ==
    IF ~MenuitemValid(item)
    THEN /\ last' = Error("add_menu_item", 422, <<"Unprocessable Entity">>)
         /\ UNCHANGED <<menuitem, order, nextId>>
    ELSE /\ menuitem' = create_document(menuitem, nextId, item)
         /\ nextId' = nextId + 1
         /\ last' = Response("add_menu_item", 200, [id |-> nextId])
         /\ UNCHANGED order

\* {"$set": payload}
SetFields(doc, payload) ==
    [k \in DOMAIN doc \cup DOMAIN payload |->
        IF k \in DOMAIN payload THEN payload[k] ELSE doc[k]]

\* (mutant) the patch also rewrites the lines of the orders that reference
\* the item, as a live join would
update_menu_item_Live(item_id, payload) ==
    IF ~ObjectIdOk(item_id)
    THEN /\ last' = Error("update_menu_item", 400, <<"Invalid id">>)
         /\ UNCHANGED <<menuitem, order, nextId>>
    ELSE IF object_id(item_id) \notin DOMAIN menuitem
    THEN /\ last' = Error("update_menu_item", 404, <<"Item not found">>)
         /\ UNCHANGED <<menuitem, order, nextId>>
    ELSE /\ menuitem' = [menuitem EXCEPT
                            ![object_id(item_id)] = SetFields(@, payload)]
         /\ order' = [id \in DOMAIN order |->
               [order[id] EXCEPT !.items =
                   [k \in 1..Len(@) |->
                       IF @[k].menu_item_id = object_id(item_id)
                              /\ "price" \in DOMAIN payload
                       THEN [@[k] EXCEPT !.price = payload.price]
                       ELSE @[k]]]]
         /\ last' = Response("update_menu_item", 200, [updated |-> TRUE])
         /\ UNCHANGED nextId

\* PATCH /api/menu/{item_id}
update_menu_item(item_id, payload) ==
    IF ~ObjectIdOk(item_id)
    THEN /\ last' = Error("update_menu_item", 400, <<"Invalid id">>)
         /\ UNCHANGED <<menuitem, order, nextId>>
    ELSE IF object_id(item_id) \notin DOMAIN menuitem
    THEN /\ last' = Error("update_menu_item", 404, <<"Item not found">>)
         /\ UNCHANGED <<menuitem, order, nextId>>
    ELSE /\ menuitem' = [menuitem EXCEPT
                            ![object_id(item_id)] = SetFields(@, payload)]
         /\ last' = Response("update_menu_item", 200, [updated |-> TRUE])
         /\ UNCHANGED <<order, nextId>>

\* (mutant) a delete that matched nothing answers as if it had deleted
delete_menu_item_Silent(item_id) ==
    IF ~ObjectIdOk(item_id)
    THEN /\ last' = Error("delete_menu_item", 400, <<"Invalid id">>)
         /\ UNCHANGED <<menuitem, order, nextId>>
    ELSE /\ menuitem' = [k \in DOMAIN menuitem \ {object_id(item_id)} |-> menuitem[k]]
         /\ last' = Response("delete_menu_item", 200, [deleted |-> TRUE])
         /\ UNCHANGED <<order, nextId>>

\* DELETE /api/menu/{item_id}
delete_menu_item(item_id) ==
    IF ~ObjectIdOk(item_id)
    THEN /\ last' = Error("delete_menu_item", 400, <<"Invalid id">>)
         /\ UNCHANGED <<menuitem, order, nextId>>
    ELSE IF object_id(item_id) \notin DOMAIN menuitem
    THEN /\ last' = Error("delete_menu_item", 404, <<"Item not found">>)
         /\ UNCHANGED <<menuitem, order, nextId>>
    ELSE /\ menuitem' = [k \in DOMAIN menuitem \ {object_id(item_id)} |-> menuitem[k]]
         /\ last' = Response("delete_menu_item", 200, [deleted |-> TRUE])
         /\ UNCHANGED <<order, nextId>>

----------------------------------------------------------------------------
(* Orders endpoints *)

TAX_RATE == FromCents(5)   \* the literal 0.05

Get(d, key, default) == IF key \in DOMAIN d THEN d[key] ELSE default

\* (mutant) the lookup without its availability filter
FindAvailable_NoFilter(oid) ==
    IF oid \in DOMAIN menuitem THEN {menuitem[oid]} ELSE {}

\* db["menuitem"].find_one({"_id": oid, "is_available": True})
FindAvailable(oid) ==
    IF oid \in DOMAIN menuitem /\ menuitem[oid].is_available = TRUE
    THEN {menuitem[oid]} ELSE {}

\* int(x) of a JSON number x given in tenths: truncation toward zero
IntOf(x) == IF x >= 0 THEN x \div 10 ELSE 0 - ((0 - x) \div 10)

\* qty = int(i.get("quantity", 1)) for the requested line i
QuantityOf(i) == IF "quantity" \in DOMAIN i THEN IntOf(i.quantity) ELSE 1

\* (mutant) a line of a menu item the order already holds is merged into
\* that line
PriceLine_Merge(i, order_items, subtotal) ==
    LET mid == Get(i, "menu_item_id", NoneId)
        qty == QuantityOf(i)
    IN  IF ~ObjectIdOk(mid)
        THEN [code |-> 400, detail |-> <<"Invalid id">>,
              order_items |-> order_items, subtotal |-> subtotal]
        ELSE IF FindAvailable(object_id(mid)) = {}
        THEN [code |-> 400, detail |-> <<"Menu item", mid, "unavailable">>,
              order_items |-> order_items, subtotal |-> subtotal]
        ELSE LET doc        == CHOOSE d \in FindAvailable(object_id(mid)) : TRUE
                 price      == doc.price
                 name       == doc.name
                 line_total == FMul(price, FromInt(qty))
                 it         == Orderitem(object_id(mid), name, price, qty,
                                         line_total)
                 same       == {k \in 1..Len(order_items) :
                                   order_items[k].menu_item_id = object_id(mid)}
             IN  IF ~OrderitemValid(it)
                 THEN [code |-> 500, detail |-> <<"Internal Server Error">>,
                       order_items |-> order_items, subtotal |-> subtotal]
                 ELSE [code |-> 200, detail |-> << >>,
                       order_items |->
                           IF same = {} THEN Append(order_items, it)
                           ELSE [k \in 1..Len(order_items) |->
                                    IF k \in same
                                    THEN [order_items[k] EXCEPT
                                             !.quantity = @ + qty,
                                             !.line_total = FAdd(@, line_total)]
                                    ELSE order_items[k]],
                       subtotal |-> FAdd(subtotal, line_total)]

\* One iteration of the loop of create_order, for the requested line i.
\* Result: [code, detail, order_items, subtotal]; code 200 when the line was
\* priced, else the response code of the exception that leaves the loop.
\* (The code adds line_total to subtotal before Orderitem validates the
\* line; a line that fails validation raises and discards that sum.
\* A missing quantity is the int 1; a line that fails the Orderitem model
\* is an unhandled error, answered 500.)
PriceLine(i, order_items, subtotal) ==
    LET mid == Get(i, "menu_item_id", NoneId)
        qty == QuantityOf(i)
    IN  IF ~ObjectIdOk(mid)
        THEN [code |-> 400, detail |-> <<"Invalid id">>,
              order_items |-> order_items, subtotal |-> subtotal]
        ELSE IF FindAvailable(object_id(mid)) = {}
        THEN [code |-> 400, detail |-> <<"Menu item", mid, "unavailable">>,
              order_items |-> order_items, subtotal |-> subtotal]
        ELSE LET doc        == CHOOSE d \in FindAvailable(object_id(mid)) : TRUE
                 price      == doc.price
                 name       == doc.name
                 line_total == FMul(price, FromInt(qty))
                 it         == Orderitem(object_id(mid), name, price, qty,
                                         line_total)
             IN  IF ~OrderitemValid(it)
                 THEN [code |-> 500, detail |-> <<"Internal Server Error">>,
                       order_items |-> order_items, subtotal |-> subtotal]
                 ELSE [code |-> 200, detail |-> << >>,
                       order_items |-> Append(order_items, it),
                       subtotal |-> FAdd(subtotal, line_total)]

\* The loop of create_order over the requested lines still to price
RECURSIVE PriceLines(_, _, _)
PriceLines(items, order_items, subtotal) ==
    IF items = << >>
    THEN [code |-> 200, detail |-> << >>, order_items |-> order_items,
          subtotal |-> subtotal]
    ELSE LET r == PriceLine(Head(items), order_items, subtotal)
         IN  IF r.code # 200 THEN r
             ELSE PriceLines(Tail(items), r.order_items, r.subtotal)

\* The part of create_order after the loop: the order document
OrderDoc(payload, order_items, subtotal) ==
    LET tax   == Round2(FMul(subtotal, TAX_RATE))
        total == Round2(FAdd(subtotal, tax))
    IN  Order(payload.customer_name, payload.table_number, order_items,
              Round2(subtotal), tax, total)

\* class CreateOrder: the body as the handler receives it; keys the model
\* does not declare are dropped, a missing table_number is None
CreateOrder(body) ==
    [customer_name |-> body.customer_name,
     table_number |-> Get(body, "table_number", NONE),
     items |-> body.items]

\* POST /api/orders
create_order(payload) ==
    LET priced == PriceLines(payload.items, << >>, FZero) IN
    IF priced.code # 200
    THEN /\ last' = Error("create_order", priced.code, priced.detail)
         /\ UNCHANGED <<menuitem, order, nextId>>
    ELSE LET order_doc == OrderDoc(payload, priced.order_items, priced.subtotal)
             order_id  == OrderId(Cardinality(DOMAIN order) + 1)
         IN  IF ~OrderValid(order_doc)
             THEN /\ last' = Error("create_order", 500, <<"Internal Server Error">>)
                  /\ UNCHANGED <<menuitem, order, nextId>>
             ELSE /\ order' = create_document(order, order_id, order_doc)
                  /\ last' = Response("create_order", 200,
                                 [id |-> order_id, subtotal |-> order_doc.subtotal,
                                  tax |-> order_doc.tax, total |-> order_doc.total])
                  /\ UNCHANGED <<menuitem, nextId>>

\* (mutant) no check of the status value
IsStatus_Any(s) == TRUE

\* status in ["pending", "preparing", "ready", "completed", "cancelled"]
IsStatus(s) == \E k \in 1..Len(STATUSES) : STATUSES[k] = s

\* (mutant) the order document is replaced by the status, not patched
update_order_status_Replace(order_id, payload) ==
    LET status == Get(payload, "status", NONE) IN
    IF ~IsStatus(status)
    THEN /\ last' = Error("update_order_status", 400, <<"Invalid status">>)
         /\ UNCHANGED <<menuitem, order, nextId>>
    ELSE IF ~ObjectIdOk(order_id)
    THEN /\ last' = Error("update_order_status", 400, <<"Invalid id">>)
         /\ UNCHANGED <<menuitem, order, nextId>>
    ELSE IF object_id(order_id) \notin DOMAIN order
    THEN /\ last' = Error("update_order_status", 404, <<"Order not found">>)
         /\ UNCHANGED <<menuitem, order, nextId>>
    ELSE /\ order' = [order EXCEPT ![object_id(order_id)] = [status |-> status]]
         /\ last' = Response("update_order_status", 200, [updated |-> TRUE])
         /\ UNCHANGED <<menuitem, nextId>>

\* (mutant) update_one with upsert: an id without order gets one
update_order_status_Upsert(order_id, payload) ==
    LET status == Get(payload, "status", NONE) IN
    IF ~IsStatus(status)
    THEN /\ last' = Error("update_order_status", 400, <<"Invalid status">>)
         /\ UNCHANGED <<menuitem, order, nextId>>
    ELSE IF ~ObjectIdOk(order_id)
    THEN /\ last' = Error("update_order_status", 400, <<"Invalid id">>)
         /\ UNCHANGED <<menuitem, order, nextId>>
    ELSE /\ order' = IF object_id(order_id) \in DOMAIN order
                     THEN [order EXCEPT ![object_id(order_id)] =
                              SetFields(@, [status |-> status])]
                     ELSE create_document(order, object_id(order_id),
                                          [status |-> status])
         /\ last' = Response("update_order_status", 200, [updated |-> TRUE])
         /\ UNCHANGED <<menuitem, nextId>>

\* PATCH /api/orders/{order_id}
update_order_status(order_id, payload) ==
    LET status == Get(payload, "status", NONE) IN
    IF ~IsStatus(status)
    THEN /\ last' = Error("update_order_status", 400, <<"Invalid status">>)
         /\ UNCHANGED <<menuitem, order, nextId>>
    ELSE IF ~ObjectIdOk(order_id)
    THEN /\ last' = Error("update_order_status", 400, <<"Invalid id">>)
         /\ UNCHANGED <<menuitem, order, nextId>>
    ELSE IF object_id(order_id) \notin DOMAIN order
    THEN /\ last' = Error("update_order_status", 404, <<"Order not found">>)
         /\ UNCHANGED <<menuitem, order, nextId>>
    ELSE /\ order' = [order EXCEPT ![object_id(order_id)] =
                          SetFields(@, [status |-> status])]
         /\ last' = Response("update_order_status", 200, [updated |-> TRUE])
         /\ UNCHANGED <<menuitem, nextId>>

----------------------------------------------------------------------------
(* Metrics *)

\* A filter maps a field to the set of values it accepts: {"f": v} is
\* [f |-> {v}], {"f": {"$in": vs}} is [f |-> vs], {} accepts every document
Matches(doc, filter) == \A f \in DOMAIN filter : doc[f] \in filter[f]

RECURSIVE CountIds(_, _, _)
CountIds(coll, ids, filter) ==
    IF ids = {} THEN 0
    ELSE LET k == CHOOSE x \in ids : TRUE
         IN  (IF Matches(coll[k], filter) THEN 1 ELSE 0)
                 + CountIds(coll, ids \ {k}, filter)

\* collection.count_documents(filter)
count_documents(coll, filter) == CountIds(coll, DOMAIN coll, filter)

EmptyFilter == [f \in {} |-> {}]

\* (mutant) active orders counted as the pending ones only
metrics_PendingOnly ==
    LET total_menu      == count_documents(menuitem, EmptyFilter)
        pending_orders  == count_documents(order, [status |-> {"pending"}])
        completed_today == count_documents(order, [status |-> {"completed"}])
    IN  /\ last' = Response("metrics", 200,
                       [total_menu |-> total_menu,
                        active_orders |-> pending_orders,
                        completed_orders |-> completed_today])
        /\ UNCHANGED <<menuitem, order, nextId>>

\* GET /api/metrics
metrics ==
    LET total_menu      == count_documents(menuitem, EmptyFilter)
        pending_orders  == count_documents(order, [status |-> {"pending", "preparing"}])
        completed_today == count_documents(order, [status |-> {"completed"}])
    IN  /\ last' = Response("metrics", 200,
                       [total_menu |-> total_menu,
                        active_orders |-> pending_orders,
                        completed_orders |-> completed_today])
        /\ UNCHANGED <<menuitem, order, nextId>>

----------------------------------------------------------------------------
(* The service: any request, one handler at a time.  The bounds stop the   *)
(* collections from growing; the handlers themselves have no such limit.   *)

Next ==
    \/ \E item \in MenuInputs : add_menu_item(item) /\ nextId <= MaxItems /\ UNCHANGED inflight
    \/ \E id \in MenuIdInputs, payload \in PatchInputs :
          update_menu_item(id, payload) /\ UNCHANGED inflight
    \/ \E id \in MenuIdInputs : delete_menu_item(id) /\ UNCHANGED inflight
    \/ \E body \in BasicOrderBodies :
          /\ create_order(CreateOrder(body))
          /\ Cardinality(DOMAIN order') <= MaxOrders
          /\ UNCHANGED inflight
    \/ \E id \in OrderIdInputs, payload \in BasicStatusInputs :
          update_order_status(id, payload) /\ UNCHANGED inflight
    \/ metrics /\ UNCHANGED inflight

Spec == Init /\ [][Next]_vars

(* Order creation and pricing against a catalog that stays as it is *)

InitOrders ==
    /\ menuitem = create_document(create_document(<< >>, 1, ItemA), 2, ItemB)
    /\ order = << >>
    /\ nextId = 3
    /\ last = Response("start", 200, [message |-> "running"])
    /\ inflight = << >>

NextOrders ==
    \/ \E payload \in CreateOrderInputs :
          /\ create_order(payload)
          /\ Cardinality(DOMAIN order') <= MaxOrders
          /\ UNCHANGED inflight
    \/ \E id \in OrderIdInputs, payload \in StatusInputs :
          update_order_status(id, payload) /\ UNCHANGED inflight
    \/ metrics /\ UNCHANGED inflight

SpecOrders == InitOrders /\ [][NextOrders]_vars

(* The status lifecycle of several orders *)

NextLifecycle ==
    \/ \E body \in BasicOrderBodies :
          /\ create_order(CreateOrder(body))
          /\ Cardinality(DOMAIN order') <= MaxLifecycleOrders
          /\ UNCHANGED inflight
    \/ \E id \in OrderIdInputs, payload \in StatusInputs :
          update_order_status(id, payload) /\ UNCHANGED inflight
    \/ metrics /\ UNCHANGED inflight

SpecLifecycle == InitOrders /\ [][NextLifecycle]_vars

(* create_order handled by several workers at once.  A request is one     *)
(* step when it is received, one step per catalog lookup (find_one is the *)
(* only access to the store in the loop) and one step for the insert;      *)
(* update_menu_item runs between these steps.                              *)

\* the frame of a worker that handles no request
Idle ==
    [pc |-> "idle", payload |-> NONE, rest |-> << >>, order_items |-> << >>,
     subtotal |-> FZero, began |-> 0, code |-> 0, id |-> GhostId]

RaceOrderInputs ==
    [customer_name : {"amy"}, table_number : {NONE},
     items : {<<[menu_item_id |-> 1]>>,
              <<[menu_item_id |-> 1], [menu_item_id |-> 1, quantity |-> 20]>>}]

RacePatchInputs ==
    {[name |-> "chai", price |-> FromCents(350)], [price |-> FromCents(0 - 330)]}
        \cup {[is_available |-> a] : a \in BOOLEAN}

\* the request reaches the handler; began counts the orders then persisted
create_order_receive(r, payload) ==
    /\ inflight[r].pc = "idle"
    /\ inflight' = [inflight EXCEPT ![r] =
                        [Idle EXCEPT !.pc = IF payload.items = << >>
                                            THEN "insert" ELSE "loop",
                                     !.payload = payload,
                                     !.rest = payload.items,
                                     !.began = Cardinality(DOMAIN order)]]
    /\ UNCHANGED <<menuitem, order, nextId, last>>

\* one iteration of the loop: the lookup of the next requested line
create_order_lookup(r) ==
    /\ inflight[r].pc = "loop"
    /\ LET f      == inflight[r]
           priced == PriceLine(Head(f.rest), f.order_items, f.subtotal)
       IN  IF priced.code # 200
           THEN /\ last' = Error("create_order", priced.code, priced.detail)
                /\ inflight' = [inflight EXCEPT ![r] =
                                    [f EXCEPT !.pc = "done", !.code = priced.code]]
           ELSE /\ inflight' = [inflight EXCEPT ![r] =
                                    [f EXCEPT !.pc = IF Tail(f.rest) = << >>
                                                     THEN "insert" ELSE "loop",
                                              !.rest = Tail(f.rest),
                                              !.order_items = priced.order_items,
                                              !.subtotal = priced.subtotal]]
                /\ UNCHANGED last
    /\ UNCHANGED <<menuitem, order, nextId>>

\* (mutant) the insert looks every line up again and refuses the order when
\* an item is no longer available
create_order_insert_Recheck(r) ==
    /\ inflight[r].pc = "insert"
    /\ LET f         == inflight[r]
           order_doc == OrderDoc(f.payload, f.order_items, f.subtotal)
           order_id  == OrderId(Cardinality(DOMAIN order) + 1)
       IN  IF \/ ~OrderValid(order_doc)
              \/ \E k \in 1..Len(f.order_items) :
                    FindAvailable(f.order_items[k].menu_item_id) = {}
           THEN /\ last' = Error("create_order", 500, <<"Internal Server Error">>)
                /\ inflight' = [inflight EXCEPT ![r] =
                                    [f EXCEPT !.pc = "done", !.code = 500]]
                /\ UNCHANGED order
           ELSE /\ order' = create_document(order, order_id, order_doc)
                /\ last' = Response("create_order", 200,
                               [id |-> order_id, subtotal |-> order_doc.subtotal,
                                tax |-> order_doc.tax, total |-> order_doc.total])
                /\ inflight' = [inflight EXCEPT ![r] =
                                    [f EXCEPT !.pc = "done", !.code = 200,
                                              !.id = order_id]]
    /\ UNCHANGED <<menuitem, nextId>>

\* (mutant) the insert writes each line with the name and price the catalog
\* holds now
create_order_insert_Reprice(r) ==
    /\ inflight[r].pc = "insert"
    /\ LET f         == inflight[r]
           now(it)   == IF it.menu_item_id \in DOMAIN menuitem
                        THEN [it EXCEPT !.name = menuitem[it.menu_item_id].name,
                                        !.price = menuitem[it.menu_item_id].price]
                        ELSE it
           order_doc == OrderDoc(f.payload,
                                 [k \in 1..Len(f.order_items) |-> now(f.order_items[k])],
                                 f.subtotal)
           order_id  == OrderId(Cardinality(DOMAIN order) + 1)
       IN  /\ order' = create_document(order, order_id, order_doc)
           /\ last' = Response("create_order", 200,
                          [id |-> order_id, subtotal |-> order_doc.subtotal,
                           tax |-> order_doc.tax, total |-> order_doc.total])
           /\ inflight' = [inflight EXCEPT ![r] =
                               [f EXCEPT !.pc = "done", !.code = 200,
                                         !.id = order_id]]
    /\ UNCHANGED <<menuitem, nextId>>

\* the end of the handler: tax, total, the Order document and its insert
create_order_insert(r) ==
    /\ inflight[r].pc = "insert"
    /\ LET f         == inflight[r]
           order_doc == OrderDoc(f.payload, f.order_items, f.subtotal)
           order_id  == OrderId(Cardinality(DOMAIN order) + 1)
       IN  IF ~OrderValid(order_doc)
           THEN /\ last' = Error("create_order", 500, <<"Internal Server Error">>)
                /\ inflight' = [inflight EXCEPT ![r] =
                                    [f EXCEPT !.pc = "done", !.code = 500]]
                /\ UNCHANGED order
           ELSE /\ order' = create_document(order, order_id, order_doc)
                /\ last' = Response("create_order", 200,
                               [id |-> order_id, subtotal |-> order_doc.subtotal,
                                tax |-> order_doc.tax, total |-> order_doc.total])
                /\ inflight' = [inflight EXCEPT ![r] =
                                    [f EXCEPT !.pc = "done", !.code = 200,
                                              !.id = order_id]]
    /\ UNCHANGED <<menuitem, nextId>>

InitRace ==
    /\ menuitem = create_document(create_document(<< >>, 1, ItemA), 2, ItemB)
    /\ order = << >>
    /\ nextId = 3
    /\ last = Response("start", 200, [message |-> "running"])
    /\ inflight = [r \in 1..MaxRequests |-> Idle]

NextRace ==
    \/ \E r \in 1..MaxRequests, payload \in RaceOrderInputs :
          create_order_receive(r, payload)
    \/ \E r \in 1..MaxRequests : create_order_lookup(r)
    \/ \E r \in 1..MaxRequests : create_order_insert(r)
    \/ \E payload \in RacePatchInputs :
          update_menu_item(1, payload) /\ UNCHANGED inflight

SpecRace == InitRace /\ [][NextRace]_vars

----------------------------------------------------------------------------
(* Properties *)

\* a requested line that references no orderable menu item: a malformed id,
\* an id the catalog does not hold, or an item that is not available
Offending(line) ==
    LET mid == Get(line, "menu_item_id", NoneId)
    IN  \/ mid = MalformedId
        \/ mid \notin DOMAIN menuitem
        \/ menuitem[mid].is_available # TRUE

HasOffending(items) == \E k \in 1..Len(items) : Offending(items[k])

\* C1: a create_order request with an offending line at any position fails
\* and leaves the order collection as it was: no order is persisted.
\* (Stated from the step's side: a create_order step that answers 200 or
\* changes the order collection is the step of no request with an offending
\* line.)
C1_CreateOrderAtomic ==
    [][(last'.op = "create_order" /\ (last'.code = 200 \/ order' # order))
          => ~\E payload \in CreateOrderInputs :
                 HasOffending(payload.items) /\ create_order(payload)]_vars

\* a request whose first line is orderable and whose second is an existing
\* but unavailable item has just failed, nothing persisted
C1_Witness ==
    /\ last = Error("create_order", 400, <<"Menu item", 2, "unavailable">>)
    /\ order = << >>
    /\ \E payload \in CreateOrderInputs :
          /\ Len(payload.items) = 2
          /\ ~Offending(payload.items[1])
          /\ QuantityOf(payload.items[1]) >= 1
          /\ Get(payload.items[2], "menu_item_id", NoneId) = 2

\* the lines of an existing order with the fields copied at creation
Snapshot(o) ==
    [k \in 1..Len(o.items) |->
        [name |-> o.items[k].name, price |-> o.items[k].price,
         line_total |-> o.items[k].line_total]]

\* C2: the name, price and line_total of every line of a persisted order
\* stay as copied at creation through every later step, update_menu_item and
\* delete_menu_item on the referenced item included; the order stays.
C2_PriceSnapshot ==
    [][\A id \in DOMAIN order :
          id \in DOMAIN order' /\ Snapshot(order'[id]) = Snapshot(order[id])]_vars

\* a menu edit has just succeeded and an order holds a line whose item now
\* has another price and name, or is gone from the catalog
C2_Witness ==
    /\ last.op \in {"update_menu_item", "delete_menu_item"}
    /\ last.code = 200
    /\ \E id \in DOMAIN order : \E k \in 1..Len(order[id].items) :
          LET line == order[id].items[k]
          IN  \/ line.menu_item_id \notin DOMAIN menuitem
              \/ /\ menuitem[line.menu_item_id].price # line.price
                 /\ menuitem[line.menu_item_id].name # line.name

TerminalStatuses == {"completed", "cancelled"}

\* C3: once an order is completed or cancelled, no update_order_status
\* changes its status again.
C3_TerminalStatusKept ==
    [][\A id \in DOMAIN order :
          order[id].status \in TerminalStatuses
              => order'[id].status = order[id].status]_vars

FiveStatuses == {"pending", "preparing", "ready", "completed", "cancelled"}

\* C4: update_order_status with a status outside the five values, or with
\* none, answers 400 "Invalid status" and changes no order.
C4_InvalidStatusRejected ==
    [][\A id \in OrderIdInputs, payload \in StatusInputs :
          (Get(payload, "status", NONE) \notin FiveStatuses
              /\ update_order_status(id, payload))
          => (last' = Error("update_order_status", 400, <<"Invalid status">>)
              /\ order' = order)]_vars

\* an invalid status was just refused while orders exist, one of them
\* already moved on from pending
C4_Witness ==
    /\ last = Error("update_order_status", 400, <<"Invalid status">>)
    /\ \E id \in DOMAIN order : order[id].status = "preparing"

\* C5: every persisted order has at least one line.
C5_OrderHasLines == \A id \in DOMAIN order : Len(order[id].items) >= 1

\* Decimal arithmetic in hundredths, for prices that have two decimals
CentsOf(x) == Round2Cents(x)

RECURSIVE SumCents(_)
SumCents(items) ==
    IF items = << >> THEN 0
    ELSE CentsOf(Head(items).price) * Head(items).quantity + SumCents(Tail(items))

\* n / d rounded to the nearest integer, ties to even and ties upward
RoundHalfEven(n, d) ==
    LET q == n \div d
        r == n % d
    IN  IF 2 * r < d THEN q
        ELSE IF 2 * r > d THEN q + 1
        ELSE IF q % 2 = 0 THEN q ELSE q + 1

RoundHalfUp(n, d) == IF 2 * (n % d) >= d THEN (n \div d) + 1 ELSE n \div d

\* the amounts of o are those of exact decimal arithmetic, tax_c hundredths
DecimalAmounts(o, tax_c) ==
    /\ o.subtotal = FromCents(SumCents(o.items))
    /\ o.tax = FromCents(tax_c)
    /\ o.total = FromCents(SumCents(o.items) + tax_c)

RECURSIVE FloatSum(_, _)
FloatSum(items, acc) ==
    IF items = << >> THEN acc
    ELSE FloatSum(Tail(items),
                  FAdd(acc, FMul(Head(items).price, FromInt(Head(items).quantity))))

\* the amounts of o are those of the claim's formulas evaluated in doubles
FloatAmounts(o) ==
    /\ o.subtotal = FloatSum(o.items, FZero)
    /\ o.tax = Round2(FMul(o.subtotal, TAX_RATE))
    /\ o.total = Round2(FAdd(o.subtotal, o.tax))

\* C6: the amounts of every persisted order are subtotal = sum of
\* price * quantity, tax = round(subtotal * 0.05, 2) and
\* total = round(subtotal + tax, 2): in exact decimal arithmetic with either
\* rounding of a tie, or else as the same formulas evaluated in doubles.
C6_ExactAmounts ==
    \A id \in DOMAIN order :
        LET o == order[id]
        IN  \/ DecimalAmounts(o, RoundHalfEven(5 * SumCents(o.items), 100))
            \/ DecimalAmounts(o, RoundHalfUp(5 * SumCents(o.items), 100))
            \/ FloatAmounts(o)

ActiveStatuses == {"pending", "preparing"}

\* C7: the active_orders that metrics returns is the number of persisted
\* orders whose status is pending or preparing.
C7_ActiveOrders ==
    last.op = "metrics"
        => last.body.active_orders =
               Cardinality({id \in DOMAIN order : order[id].status \in ActiveStatuses})

\* metrics answered 1 with two orders persisted, one preparing and one
\* ready, completed or cancelled
C7_Witness ==
    /\ last.op = "metrics"
    /\ last.body.active_orders = 1
    /\ \E a, b \in DOMAIN order :
          order[a].status = "preparing" /\ order[b].status \notin ActiveStatuses

\* C8: every persisted order has a non-empty customer_name.
C8_CustomerNameNonEmpty ==
    \A id \in DOMAIN order : order[id].customer_name # ""

\* a menu item id that resolves to no menu item
Unresolved(id) == id = MalformedId \/ id \notin DOMAIN menuitem

\* C9 as claimed: update_menu_item and delete_menu_item on an id that
\* resolves to no menu item answer not-found and leave catalog and orders.
C9_UnresolvedIsNotFound ==
    [][\A id \in MenuIdInputs :
          (Unresolved(id)
              /\ (delete_menu_item(id)
                  \/ \E payload \in PatchInputs : update_menu_item(id, payload)))
          => (last'.code = 404 /\ menuitem' = menuitem /\ order' = order)]_vars

\* C9 (amended): on a well-formed id that resolves to no menu item both
\* handlers answer 404 "Item not found", on a malformed id 400 "Invalid id";
\* in both cases the catalog and the orders stay as they were.
C9_UnresolvedFails ==
    [][\A id \in MenuIdInputs :
          (Unresolved(id)
              /\ (delete_menu_item(id)
                  \/ \E payload \in PatchInputs : update_menu_item(id, payload)))
          => /\ last'.code = IF id = MalformedId THEN 400 ELSE 404
             /\ last'.body = [detail |-> IF id = MalformedId
                                         THEN <<"Invalid id">>
                                         ELSE <<"Item not found">>]
             /\ menuitem' = menuitem
             /\ order' = order]_vars

\* a delete of an id the catalog no longer holds was just refused, with an
\* item and an order in place
C9_Witness ==
    /\ last = Error("delete_menu_item", 404, <<"Item not found">>)
    /\ DOMAIN menuitem # {}
    /\ DOMAIN order # {}

\* C10: the status of every persisted order is one of the five values.
C10_StatusEnumerated ==
    \A id \in DOMAIN order : order[id].status \in FiveStatuses

\* an update was just refused, and the orders hold a fresh and a cancelled one
C10_Witness ==
    /\ last.op = "update_order_status"
    /\ last.code = 400
    /\ \E a, b \in DOMAIN order :
          order[a].status = "pending" /\ order[b].status = "cancelled"

\* C11: every menu item of the catalog has a price that is not negative,
\* whatever sequence of add_menu_item and update_menu_item produced it.
C11_CatalogPriceNonNegative ==
    \A id \in DOMAIN menuitem : FNonNeg(menuitem[id].price)

\* C12: every order is persisted with status pending: whatever the request
\* body carries, a status key included, each order a step adds to the order
\* collection has status "pending" in the state the step produces.
C12_CreatedPending ==
    [][\A id \in DOMAIN order' \ DOMAIN order : order'[id].status = "pending"]_vars

\* a request has just been answered with the id of its order; one of the
\* request bodies that produce this order asks for the status completed,
\* and the order is pending
C12_Witness ==
    /\ last.op = "create_order" /\ last.code = 200
    /\ last.body.id \in DOMAIN order
    /\ order[last.body.id].status = "pending"
    /\ \E body \in BasicOrderBodies :
          /\ "status" \in DOMAIN body /\ body.status = "completed"
          /\ order[last.body.id].customer_name = body.customer_name
          /\ order[last.body.id].table_number = body.table_number
          /\ Len(order[last.body.id].items) = Len(body.items)
          /\ \A k \in 1..Len(body.items) :
                order[last.body.id].items[k].menu_item_id
                    = body.items[k].menu_item_id

\* the fields of an order document other than its status
OtherFields(o) == DOMAIN o \ {"status"}

\* C13: a successful update_order_status changes only the status of the
\* order it targets: the other fields of that order, every other order, the
\* set of orders and the whole catalog are as before the step.
C13_StatusOnly ==
    [][(last'.op = "update_order_status" /\ last'.code = 200)
          => /\ menuitem' = menuitem
             /\ DOMAIN order' = DOMAIN order
             /\ \A id \in DOMAIN order :
                   /\ OtherFields(order'[id]) = OtherFields(order[id])
                   /\ \A f \in OtherFields(order[id]) :
                         order'[id][f] = order[id][f]
             /\ Cardinality({id \in DOMAIN order :
                                order'[id].status # order[id].status}) <= 1]_vars

\* two orders exist, the status of one has just been set, and the two
\* statuses now differ
C13_Witness ==
    /\ last.op = "update_order_status" /\ last.code = 200
    /\ Cardinality(DOMAIN order) = 2
    /\ \E a, b \in DOMAIN order :
          /\ order[a].status = "completed" /\ order[b].status = "pending"
          /\ order[a].items # << >> /\ order[b].items # << >>

\* C14: the insert that ends create_order does not read the catalog again.
\* With one lookup step per requested line, then one insert step, and
\* update_menu_item running between them, every request that has priced all
\* its lines is answered 200 by its insert step and adds exactly its own
\* order, whatever the catalog holds by then and whatever other requests
\* hold priced lines of the same item.  (The state the claim says is
\* reachable is C14_Witness.)
C14_InsertIgnoresCatalog ==
    [][\A r \in 1..MaxRequests :
          (inflight[r].pc = "insert" /\ inflight'[r].pc = "done")
              => /\ inflight'[r].code = 200
                 /\ last'.code = 200
                 /\ inflight'[r].id \notin DOMAIN order
                 /\ DOMAIN order' = DOMAIN order \cup {inflight'[r].id}
                 /\ Len(order'[inflight'[r].id].items) = Len(inflight[r].payload.items)
                 /\ menuitem' = menuitem]_vars

\* two requests for item 1 were both received before any order was
\* inserted and both have been answered 200; the order just inserted holds a
\* line of item 1, which at this moment (the insert leaves the catalog as it
\* is) is not available and has another price than the line
C14_Witness ==
    /\ last.op = "create_order" /\ last.code = 200
    /\ last.body.id \in DOMAIN order
    /\ \E k \in 1..Len(order[last.body.id].items) :
          LET line == order[last.body.id].items[k]
          IN  /\ menuitem[line.menu_item_id].is_available = FALSE
              /\ menuitem[line.menu_item_id].price # line.price
    /\ \A r \in 1..MaxRequests :
          /\ inflight[r].pc = "done" /\ inflight[r].code = 200
          /\ inflight[r].began = 0
          /\ inflight[r].id \in DOMAIN order
          /\ \E k \in 1..Len(order[inflight[r].id].items) :
                order[inflight[r].id].items[k].menu_item_id = 1
    /\ inflight[1].id # inflight[2].id

\* every line of every persisted order is sound in itself
LinesSound ==
    \A id \in DOMAIN order : \A k \in 1..Len(order[id].items) :
        LET line == order[id].items[k]
        IN  /\ FNonNeg(line.price)
            /\ line.line_total = FMul(line.price, FromInt(line.quantity))

\* a step that adds a line to the frame of a request copies it from the
\* catalog of that moment; a step that adds an order writes the lines of one
\* frame as they are; no step rewrites the lines of an order
LinesFaithful ==
    /\ \A r \in DOMAIN inflight :
          Len(inflight'[r].order_items) # Len(inflight[r].order_items)
              => /\ Len(inflight'[r].order_items) = Len(inflight[r].order_items) + 1
                 /\ SubSeq(inflight'[r].order_items, 1, Len(inflight[r].order_items))
                        = inflight[r].order_items
                 /\ LET line == inflight'[r].order_items[Len(inflight'[r].order_items)]
                    IN  /\ line.menu_item_id \in DOMAIN menuitem
                        /\ menuitem[line.menu_item_id].is_available = TRUE
                        /\ line.name = menuitem[line.menu_item_id].name
                        /\ line.price = menuitem[line.menu_item_id].price
    /\ \A r \in DOMAIN inflight :
          Len(inflight'[r].order_items) = Len(inflight[r].order_items)
              => inflight'[r].order_items = inflight[r].order_items
    /\ \A id \in DOMAIN order' \ DOMAIN order :
          \E r \in DOMAIN inflight :
              /\ inflight[r].pc = "insert"
              /\ order'[id].items = inflight[r].order_items
    /\ \A id \in DOMAIN order :
          id \in DOMAIN order' /\ order'[id].items = order[id].items

\* C15: under any interleaving of the steps of create_order with catalog
\* updates, every line of every persisted order has price >= 0 and
\* line_total = price * quantity, and its name and price are the ones the
\* referenced item held together in the catalog at the step of that line's
\* lookup, when the item was available.
C15_LineConsistent == []LinesSound /\ [][LinesFaithful]_vars

\* an order holds two lines of item 1 read on either side of a patch: the
\* first with the old name and price, the second with the new ones
C15_Witness ==
    \E id \in DOMAIN order :
        /\ Len(order[id].items) = 2
        /\ order[id].items[1].menu_item_id = order[id].items[2].menu_item_id
        /\ order[id].items[1].name = "tea"
        /\ order[id].items[1].price = FromCents(330)
        /\ order[id].items[2].name = "chai"
        /\ order[id].items[2].price = FromCents(350)
        /\ menuitem[1].price = FromCents(0 - 330)

\* a request with a line whose quantity, once coerced by int(), is below 1
LowQuantity(items) == \E k \in 1..Len(items) : QuantityOf(items[k]) < 1

\* C16: every line of every persisted order has quantity >= 1; a create_order
\* request with a line whose coerced quantity is below 1 fails and persists
\* no order; a line without quantity is priced with quantity 1.  (Stated from
\* the step's side: a create_order step that answers 200 or changes the order
\* collection leaves only lines of quantity >= 1, is the step of no request
\* with a low quantity, and gives the lines sent without quantity the
\* quantity 1 and the item's price as line_total.)
C16_QuantityAtLeastOne ==
    [][(last'.op = "create_order" /\ (last'.code = 200 \/ order' # order))
          => /\ \A id \in DOMAIN order' : \A k \in 1..Len(order'[id].items) :
                   order'[id].items[k].quantity >= 1
             /\ ~\E payload \in CreateOrderInputs :
                   LowQuantity(payload.items) /\ create_order(payload)
             /\ \A payload \in CreateOrderInputs :
                   create_order(payload)
                       => \A k \in 1..Len(payload.items) :
                             "quantity" \notin DOMAIN payload.items[k]
                                 => LET line == order'[last'.body.id].items[k]
                                    IN  /\ line.quantity = 1
                                        /\ line.line_total = line.price]_vars

\* a request whose only flaw is a quantity of 0 has just failed on the
\* Orderitem model, nothing persisted
C16_Witness ==
    /\ last = Error("create_order", 500, <<"Internal Server Error">>)
    /\ order = << >>
    /\ \E payload \in CreateOrderInputs :
          LowQuantity(payload.items) /\ ~HasOffending(payload.items)

\* C17: when create_order fails on a line (a nonexistent id, a malformed id,
\* an existing but unavailable item: the requests answered 400), the error
\* names the menu_item_id of that line, in the one wording shared by the
\* nonexistent and the unavailable item.
C17_ErrorNamesId ==
    (last.op = "create_order" /\ last.code = 400)
        => \E mid \in MenuIdInputs \cup {NoneId} :
               last.body.detail = <<"Menu item", mid, "unavailable">>

\* an order id that resolves to no order
UnresolvedOrder(id) == id = MalformedId \/ id \notin DOMAIN order

\* C18 as claimed: update_order_status with a valid status on an id that
\* resolves to no order answers not-found, creates no order and leaves every
\* order as it was.
C18_NoOrderIsNotFound ==
    [][\A id \in OrderIdInputs, payload \in StatusInputs :
          (UnresolvedOrder(id)
              /\ "status" \in DOMAIN payload /\ payload.status \in FiveStatuses
              /\ update_order_status(id, payload))
          => (last'.code = 404 /\ order' = order)]_vars

\* C18 (amended): with a valid status, a well-formed id that resolves to no
\* order is answered 404 "Order not found" and a malformed id 400
\* "Invalid id"; in both cases no order is created and every order stays as
\* it was.
C18_NoOrderFails ==
    [][\A id \in OrderIdInputs, payload \in StatusInputs :
          (UnresolvedOrder(id)
              /\ "status" \in DOMAIN payload /\ payload.status \in FiveStatuses
              /\ update_order_status(id, payload))
          => /\ last'.code = IF id = MalformedId THEN 400 ELSE 404
             /\ last'.body = [detail |-> IF id = MalformedId
                                         THEN <<"Invalid id">>
                                         ELSE <<"Order not found">>]
             /\ order' = order
             /\ menuitem' = menuitem]_vars

\* an update with a valid status (the status is checked first) and a
\* malformed id was just refused while an order is in place
C18_Witness ==
    /\ last = Error("update_order_status", 400, <<"Invalid id">>)
    /\ Cardinality(DOMAIN order) = 1

\* C19: a successful create_order persists one order line per requested
\* line, in request order, lines of the same menu item not merged: the
\* persisted items have the length of the request's items, and the i-th
\* line carries the menu_item_id and the (coerced) quantity of the i-th
\* requested line.
C19_LinePerRequestedLine ==
    [][(last'.op = "create_order" /\ last'.code = 200)
          => \A payload \in CreateOrderInputs :
                create_order(payload)
                    => LET items == order'[last'.body.id].items
                       IN  /\ Len(items) = Len(payload.items)
                           /\ \A k \in 1..Len(items) :
                                 /\ items[k].menu_item_id
                                       = payload.items[k].menu_item_id
                                 /\ items[k].quantity
                                       = QuantityOf(payload.items[k])]_vars

\* an order holds two lines of the same menu item with different quantities
C19_Witness ==
    /\ last.op = "create_order" /\ last.code = 200
    /\ LET items == order[last.body.id].items
       IN  /\ Len(items) = 2
           /\ items[1].menu_item_id = items[2].menu_item_id
           /\ items[1].quantity = 1 /\ items[2].quantity = 2

====
